---- MODULE Spec2Model ----
(***************************************************************************)
(* Model of brigade/core/inventory.py: Host / Group scopes with            *)
(* hierarchical attribute resolution, per-scope connection caching, and    *)
(* Inventory construction and filtering.                                   *)
(*                                                                         *)
(* Python values are tagged records: None is [none |-> TRUE], a str s is   *)
(* [str |-> s], a reference to the object at heap index i is [ref |-> i].  *)
(* A Python dict is a sequence of <<key, value>> pairs in insertion order. *)
(* The outcome of a call is [st |-> "ok", val |-> v] or [st |-> <the name  *)
(* of the exception that propagates out of the call>].                     *)
(***************************************************************************)
EXTENDS Integers, Sequences, FiniteSets, TLC

VARIABLES
    scopes,     \* the heap: a sequence of Host/Group objects, index = identity
    inv,        \* the Inventory the caller holds, or NoInventory
    result,     \* what the last call returned or raised
    held,       \* the objects the caller built itself with Host() / Group()
    nset,       \* number of __setitem__ calls made so far
    registry,   \* names of the tasks brigade.plugins.tasks.connections defines
    threads,    \* per thread: its position inside get_connection
    invoked,    \* how often each task ran for each (scope, connection type)
    nhandles    \* number of connection handles the tasks have created

vars == <<scopes, inv, result, held, nset, registry, threads, invoked, nhandles>>

----------------------------------------------------------------------------
(* Bounds of the model.                                                    *)

\* Objects built by calling Host(...) / Group(...) directly.
MaxStandalone == 2
\* __setitem__ calls in one behaviour.
MaxSetItems == 1
\* Stand-in for the interpreter's recursion limit (sys.getrecursionlimit()).
RecursionLimit == 16
\* get_connection calls the single caller makes.
MaxCalls == 3
\* get_connection calls each of the two concurrent threads makes.
MaxRaceCalls == 2

----------------------------------------------------------------------------
(* Python values.                                                          *)

None == [none |-> TRUE]
Str(s) == [str |-> s]
Ref(i) == [ref |-> i]
IsNone(v) == v = None
IsStr(v) == "str" \in DOMAIN v
IsRef(v) == "ref" \in DOMAIN v

Ok(v) == [st |-> "ok", val |-> v]
Raise(e) == [st |-> e]
IsOk(r) == r.st = "ok"

----------------------------------------------------------------------------
(* dict, as a sequence of <<key, value>> pairs.                            *)

DictKeys(d) == [i \in 1..Len(d) |-> d[i][1]]
DictValues(d) == [i \in 1..Len(d) |-> d[i][2]]
DictKeySet(d) == {d[i][1] : i \in 1..Len(d)}
DictHas(d, k) == k \in DictKeySet(d)
DictGet(d, k) == d[CHOOSE i \in 1..Len(d) : d[i][1] = k][2]
\* d[k] = v: an existing key keeps its position, a new key goes last.
DictSet(d, k, v) ==
    IF DictHas(d, k)
    THEN [i \in 1..Len(d) |-> IF d[i][1] = k THEN <<k, v>> ELSE d[i]]
    ELSE Append(d, <<k, v>>)

RECURSIVE DictUpdate(_, _)
\* d.update(e)
DictUpdate(d, e) ==
    IF e = <<>> THEN d
    ELSE DictUpdate(DictSet(d, Head(e)[1], Head(e)[2]), Tail(e))

\* helpers.merge_two_dicts(x, y): a copy of x updated with y.
merge_two_dicts(x, y) == DictUpdate(x, y)

----------------------------------------------------------------------------
(* class Host / class Group.  s is the heap, o the index of self, d the    *)
(* depth of the Python frame the call runs in.                             *)

RecursionError == Raise("RecursionError")

\* The rest of a computation once the call that gave r has returned: an
\* exception propagates, a value goes on to F.
Then(r, F(_)) == IF IsOk(r) THEN F(r.val) ELSE r

RECURSIVE keys(_, _, _)
RECURSIVE values(_, _, _)
RECURSIVE getitem(_, _, _, _)
RECURSIVE items(_, _, _)

\* Host.__len__ (Group inherits it)
len(s, o, d) ==
    IF d > RecursionLimit THEN RecursionError
    ELSE Then(keys(s, o, d + 1), LAMBDA k : Ok(Len(k)))

\* "is not None" where the code tests truth: __len__ is never called.
TruthyNotNone(s, v, d) == Ok(~IsNone(v))

\* bool(v) for a value held in self.group, evaluated in the frame at depth
\* d: None is false, a str is true unless empty, and a Host/Group, which
\* defines __len__ and no __bool__, is true unless its length is 0.
Truthy(s, v, d) ==
    IF IsNone(v) THEN Ok(FALSE)
    ELSE IF IsStr(v) THEN Ok(v.str # "")
    ELSE Then(len(s, v.ref, d + 1), LAMBDA n : Ok(n # 0))

\* Host.keys
keys(s, o, d) ==
    IF d > RecursionLimit THEN RecursionError
    ELSE Then(Truthy(s, s[o].group, d), LAMBDA t :
            IF ~t THEN Ok(DictKeys(s[o].data))
            ELSE IF IsStr(s[o].group) THEN Raise("AttributeError")
            ELSE Then(keys(s, s[o].group.ref, d + 1), LAMBDA up :
                    Ok(DictKeys(s[o].data) \o up)))

\* Host.values
values(s, o, d) ==
    IF d > RecursionLimit THEN RecursionError
    ELSE Then(Truthy(s, s[o].group, d), LAMBDA t :
            IF ~t THEN Ok(DictValues(s[o].data))
            ELSE IF IsStr(s[o].group) THEN Raise("AttributeError")
            ELSE Then(values(s, s[o].group.ref, d + 1), LAMBDA up :
                    Ok(DictValues(s[o].data) \o up)))

\* What self.data[item] gives once the parent had no such item.
OwnOr(s, o, item, up) ==
    IF up.st # "KeyError" THEN up
    ELSE IF DictHas(s[o].data, item) THEN Ok(DictGet(s[o].data, item))
    ELSE up

\* A mis-resolution that asks the parent group before the scope's own data.
getitemParentFirst(s, o, item, d) ==
    IF d > RecursionLimit THEN RecursionError
    ELSE Then(Truthy(s, s[o].group, d), LAMBDA t :
            IF ~t THEN OwnOr(s, o, item, Raise("KeyError"))
            ELSE IF IsStr(s[o].group) THEN Raise("TypeError")
            ELSE OwnOr(s, o, item, getitem(s, s[o].group.ref, item, d + 1)))

\* Host.__getitem__
getitem(s, o, item, d) ==
    IF d > RecursionLimit THEN RecursionError
    ELSE IF DictHas(s[o].data, item) THEN Ok(DictGet(s[o].data, item))
    ELSE Then(Truthy(s, s[o].group, d), LAMBDA t :
            IF ~t THEN Raise("KeyError")
            ELSE IF IsStr(s[o].group) THEN Raise("TypeError")
            ELSE getitem(s, s[o].group.ref, item, d + 1))

\* except KeyError: return default
OrDefault(r, default) == IF r.st = "KeyError" THEN Ok(default) ELSE r

\* Host.get
get(s, o, item, default, d) ==
    IF d > RecursionLimit THEN RecursionError
    ELSE OrDefault(getitem(s, o, item, d + 1), default)

\* items() merging the wrong way round: the parent's entries overwrite
\* the scope's own.
itemsParentWins(s, o, d) ==
    IF d > RecursionLimit THEN RecursionError
    ELSE Then(Truthy(s, s[o].group, d), LAMBDA t :
            IF ~t THEN Ok(merge_two_dicts(<<>>, s[o].data))
            ELSE IF IsStr(s[o].group) THEN Raise("AttributeError")
            ELSE Then(items(s, s[o].group.ref, d + 1), LAMBDA up :
                    Ok(merge_two_dicts(s[o].data, up))))

\* Host.items
items(s, o, d) ==
    IF d > RecursionLimit THEN RecursionError
    ELSE Then(Truthy(s, s[o].group, d), LAMBDA t :
            IF ~t THEN Ok(merge_two_dicts(<<>>, s[o].data))
            ELSE IF IsStr(s[o].group) THEN Raise("AttributeError")
            ELSE Then(items(s, s[o].group.ref, d + 1), LAMBDA up :
                    Ok(merge_two_dicts(up, s[o].data))))

\* Host.__init__ seeding data["group"] from a name only: a parent given as
\* an object leaves None.
GroupNameOfStr(s, group, d) == Ok(IF IsStr(group) THEN group ELSE None)

\* Host.__init__, the value stored as data["group"].
GroupName(s, group, d) ==
    IF IsStr(group) THEN Ok(group)
    ELSE Then(Truthy(s, group, d), LAMBDA t :
            Ok(IF t THEN Str(s[group.ref].name) ELSE None))

\* Host.__init__(name, group, **kwargs) for class cls: the object built.
NewHost(s, cls, name, group, kwargs, d) ==
    Then(GroupName(s, group, d), LAMBDA gname :
        Ok([cls |-> cls, name |-> name, group |-> group,
            data |-> DictUpdate(<<<<"name", Str(name)>>,
                                  <<"group", gname>>>>, kwargs),
            connections |-> <<>>]))

\* Host.__setitem__: the heap after self[item] = value.
setitem(s, o, item, value) ==
    [s EXCEPT ![o].data = DictSet(@, item, value)]

\* An established connection, as the task that made it numbers it.
Handle(n) == [handle |-> n]

\* A get_connection without memory: the cache is never consulted.
CachedNever(s, o, c) == FALSE

\* Host.get_connection: connection in self.connections
Cached(s, o, c) == DictHas(s[o].connections, c)

\* Host.get_connection: "{}_connection".format(connection)
TaskName(c) == c \o "_connection"

\* A getattr with a fallback: every connection type finds some task.
KnownAlways(reg, c) == TRUE

\* Host.get_connection: getattr(connections, task_name) finds the task.
Known(reg, c) == TaskName(c) \in reg

\* A task of brigade.plugins.tasks.connections, called with host = the
\* scope o: it establishes the connection h and stores it in
\* host.connections[c].
connection_task(s, o, c, h) ==
    [s EXCEPT ![o].connections = DictSet(@, c, h)]

\* Host.get_connection: return self.connections[connection]
Established(s, o, c) ==
    IF DictHas(s[o].connections, c) THEN Ok(DictGet(s[o].connections, c))
    ELSE Raise("KeyError")

\* Host.get_connection(connection), run without interruption; h is the
\* connection the task would establish.  ran tells whether the task ran.
get_connection(s, reg, o, c, h) ==
    IF Cached(s, o, c)
    THEN [r |-> Established(s, o, c), heap |-> s, ran |-> 0]
    ELSE IF ~Known(reg, c)
    THEN [r |-> Raise("AttributeError"), heap |-> s, ran |-> 0]
    ELSE [r |-> Established(connection_task(s, o, c, h), o, c),
          heap |-> connection_task(s, o, c, h), ran |-> 1]

----------------------------------------------------------------------------
(* class Inventory.  A hosts / groups argument is a sequence of            *)
(* <<name, entry>> pairs in the mapping's iteration order; an entry is a   *)
(* raw field mapping [group |-> None or a str, kw |-> the other fields]    *)
(* or a reference to an object built beforehand.  The outcome of the       *)
(* constructor carries the heap it leaves, self.groups, self.hosts as far  *)
(* as filled, the number of Host objects it built (made) and of parent     *)
(* names of hosts it replaced by Group objects (linked).                   *)

IsGroup(s, v) == IsRef(v) /\ s[v.ref].cls = "Group"

RECURSIVE MaterializeGroups(_, _, _)
\* Inventory.__init__, the loop that fills self.groups.
MaterializeGroups(s, groupsArg, acc) ==
    IF groupsArg = <<>> THEN [heap |-> s, groups |-> acc]
    ELSE IF IsRef(Head(groupsArg)[2])
    THEN MaterializeGroups(s, Tail(groupsArg),
                           DictSet(acc, Head(groupsArg)[1], Head(groupsArg)[2]))
    ELSE MaterializeGroups(
             Append(s, NewHost(s, "Group", Head(groupsArg)[1],
                               Head(groupsArg)[2].group,
                               Head(groupsArg)[2].kw, 2).val),
             Tail(groupsArg),
             DictSet(acc, Head(groupsArg)[1], Ref(Len(s) + 1)))

\* self.groups[g.group], for whatever g.group holds.
LookupGroup(groups, v) ==
    IF IsStr(v) /\ DictHas(groups, v.str)
    THEN Ok(DictGet(groups, v.str))
    ELSE Raise("KeyError")

\* The heap with the parent of o set to what the lookup gave, or the
\* lookup's error and the heap as it was.
Link(s, o, g) ==
    IF IsOk(g) THEN Ok([s EXCEPT ![o].group = g.val])
    ELSE [st |-> g.st, heap |-> s]

\* The loop over the groups left out: parent names stay names.
ResolveGroupsSkipped(s, groups, i) == Ok(s)

RECURSIVE ResolveGroups(_, _, _)
\* Inventory.__init__, the loop over self.groups.values() that replaces
\* parent names by Group objects: the heap after it, or the error.
ResolveGroups(s, groups, i) ==
    IF i > Len(groups) THEN Ok(s)
    ELSE IF IsNone(s[groups[i][2].ref].group)
            \/ IsGroup(s, s[groups[i][2].ref].group)
    THEN ResolveGroups(s, groups, i + 1)
    ELSE Then(Link(s, groups[i][2].ref,
                   LookupGroup(groups, s[groups[i][2].ref].group)),
              LAMBDA s1 : ResolveGroups(s1, groups, i + 1))

RECURSIVE ResolveHosts(_, _, _, _)

Progress(heap, acc, st) ==
    [st |-> st, heap |-> heap, hosts |-> acc.hosts,
     made |-> acc.made, linked |-> acc.linked]

\* self.hosts[n] = h
Store(acc, n, o, linked) ==
    [hosts |-> DictSet(acc.hosts, n, Ref(o)), made |-> acc.made,
     linked |-> acc.linked + linked]

\* Inventory.__init__, one turn of the loop over hosts, for the host
\* object o: its parent name is replaced and the host stored.
ResolveHost(s, groups, hostsArg, acc, o) ==
    IF IsNone(s[o].group) \/ IsGroup(s, s[o].group)
    THEN ResolveHosts(s, groups, Tail(hostsArg),
                      Store(acc, Head(hostsArg)[1], o, 0))
    ELSE IF IsOk(LookupGroup(groups, s[o].group))
    THEN ResolveHosts(Link(s, o, LookupGroup(groups, s[o].group)).val,
                      groups, Tail(hostsArg),
                      Store(acc, Head(hostsArg)[1], o, 1))
    ELSE Progress(s, acc, "KeyError")

\* Inventory.__init__, the loop over hosts.
ResolveHosts(s, groups, hostsArg, acc) ==
    IF hostsArg = <<>> THEN Progress(s, acc, "ok")
    ELSE IF IsRef(Head(hostsArg)[2])
    THEN ResolveHost(s, groups, hostsArg, acc, Head(hostsArg)[2].ref)
    ELSE ResolveHost(Append(s, NewHost(s, "Host", Head(hostsArg)[1],
                                       Head(hostsArg)[2].group,
                                       Head(hostsArg)[2].kw, 2).val),
                     groups, hostsArg, [acc EXCEPT !.made = @ + 1],
                     Len(s) + 1)

NoHosts == [hosts |-> <<>>, made |-> 0, linked |-> 0]

WithGroups(h, groups) ==
    [st |-> h.st, heap |-> h.heap, groups |-> groups, hosts |-> h.hosts,
     made |-> h.made, linked |-> h.linked]

\* Inventory.__init__ from the loop over self.groups.values() on, m being
\* what the first loop left and r what this loop gave.
InventoryLinked(m, r, hostsArg) ==
    IF IsOk(r)
    THEN WithGroups(ResolveHosts(r.val, m.groups, hostsArg, NoHosts), m.groups)
    ELSE WithGroups(Progress(r.heap, NoHosts, r.st), m.groups)

InventoryGroups(m, hostsArg) ==
    InventoryLinked(m, ResolveGroups(m.heap, m.groups, 1), hostsArg)

\* Inventory.__init__(hosts, groups)
Inventory(s, hostsArg, groupsArg) ==
    InventoryGroups(MaterializeGroups(s, groupsArg, <<>>), hostsArg)

\* any() where the code says all(): one equal pair is enough.
MatchesAny(s, o, kwargs) ==
    Ok(\E j \in 1..Len(kwargs) :
          get(s, o, kwargs[j][1], None, 3) = Ok(kwargs[j][2]))

RECURSIVE Matches(_, _, _)
\* all(h.get(k) == v for k, v in kwargs.items()): all() stops at the first
\* pair that differs, and an error raised by get propagates.
Matches(s, o, kwargs) ==
    IF kwargs = <<>> THEN Ok(TRUE)
    ELSE Then(get(s, o, Head(kwargs)[1], None, 3), LAMBDA v :
            IF v # Head(kwargs)[2] THEN Ok(FALSE)
            ELSE Matches(s, o, Tail(kwargs)))

RECURSIVE Filtered(_, _, _)
\* Inventory.filter without filter_func, the dict comprehension: the
\* entries of self.hosts kept, in order, or the error raised on the way.
Filtered(s, hosts, kwargs) ==
    IF hosts = <<>> THEN Ok(<<>>)
    ELSE Then(Matches(s, Head(hosts)[2].ref, kwargs), LAMBDA m :
            Then(Filtered(s, Tail(hosts), kwargs), LAMBDA rest :
                Ok((IF m THEN <<Head(hosts)>> ELSE <<>>) \o rest)))

\* Inventory.filter, the return statement, f being what the comprehension
\* gave: Inventory(hosts=filtered, groups=self.groups, data=self.data).
Refiltered(s, i, f) ==
    IF IsOk(f) THEN Inventory(s, f.val, i.groups)
    ELSE WithGroups(Progress(s, NoHosts, f.st), i.groups)

\* Inventory.filter(**kwargs)
filter(s, i, kwargs) == Refiltered(s, i, Filtered(s, i.hosts, kwargs))

\* Inventory.__len__
InventoryLen(i) == Len(i.hosts)

----------------------------------------------------------------------------
(* The inputs of the model.                                                *)

HostNames == <<"h1", "h2">>
GroupNames == <<"g1", "g2">>
Keys == {"name", "group", "site"}
Values == {Str("bma"), Str("cmh")}

\* A parent given by name.  A name is a dangling reference whenever the
\* groups mapping of the call has no such key.
ParentArgs == {None} \cup {Str(GroupNames[i]) : i \in 1..Len(GroupNames)}
\* The site a raw mapping gives its scope, when it gives one: two scopes of
\* one chain can differ and two hosts can agree.
SiteOf(n) == IF n \in {"h1", "g1"} THEN Str("bma") ELSE Str("cmh")
RawKw(n) == {<<>>, <<<<"site", SiteOf(n)>>>>}
RawGroups(n) == [group : ParentArgs, kw : RawKw(n)]
RawHosts(n) == [group : {None, Str(GroupNames[1])}, kw : RawKw(n)]
Defaults == {Str("dflt")}

Absent == [absent |-> TRUE]

RECURSIVE Mapping(_, _, _)
\* The mapping that gives names[i] the entry f[i], skipping Absent ones.
Mapping(names, f, i) ==
    IF i > Len(names) THEN <<>>
    ELSE (IF f[i] = Absent THEN <<>> ELSE <<<<names[i], f[i]>>>>)
         \o Mapping(names, f, i + 1)

\* Every mapping over a subset of names, entries(n) being the entries a
\* name n may get.
Mappings(names, entries(_)) ==
    {Mapping(names, f, 1) :
        f \in {x \in [1..Len(names) ->
                        UNION {entries(names[i]) : i \in 1..Len(names)}
                        \cup {Absent}] :
                 \A i \in 1..Len(names) :
                    x[i] = Absent \/ x[i] \in entries(names[i])}}

HeldOf(cls) == {Ref(o) : o \in {x \in held : scopes[x].cls = cls}}

\* The filter keyword sets tried: none, one pair, two pairs.
FilterArgs ==
    {<<>>}
    \cup {<<<<"site", v>>>> : v \in Values \cup {None}}
    \cup {<<<<"group", Str("g1")>>>>}
    \cup {<<<<"site", v>>, <<"group", Str("g1")>>>> : v \in Values}

NoInventory == [none |-> TRUE]
Failed == [failed |-> TRUE]
HasInventory == "hosts" \in DOMAIN inv

\* The objects the caller can reach: the ones it built, the ones its
\* Inventory holds, and their parents.
RECURSIVE Closure(_, _)
Closure(S, n) ==
    IF n = 0 THEN S
    ELSE Closure(S \cup {scopes[o].group.ref :
                            o \in {x \in S : IsRef(scopes[x].group)}}, n - 1)

Roots ==
    held \cup (IF HasInventory
               THEN {inv.hosts[i][2].ref : i \in 1..Len(inv.hosts)}
                    \cup {inv.groups[i][2].ref : i \in 1..Len(inv.groups)}
               ELSE {})

Reachable == Closure(Roots, Len(scopes))

----------------------------------------------------------------------------
(* The sequential use of Host, Group and Inventory.                        *)

NoResult == [op |-> "none"]

ConnUnchanged == UNCHANGED <<registry, threads, invoked, nhandles>>

\* The caller's state after Host(...) / Group(...) gave r.
Built(r) ==
    /\ result' = [op |-> "new", st |-> r.st]
    /\ IF IsOk(r)
       THEN /\ scopes' = Append(scopes, r.val)
            /\ held' = held \cup {Len(scopes) + 1}
       ELSE UNCHANGED <<scopes, held>>

\* Host(name, group, **kwargs) or Group(name, group, **kwargs), called by
\* the user of the library.
NewScope(cls, name, group, kw) ==
    /\ inv = NoInventory
    /\ Cardinality(held) < MaxStandalone
    /\ Built(NewHost(scopes, cls, name, group, kw, 1))
    /\ UNCHANGED <<inv, nset>>
    /\ ConnUnchanged

\* The caller's state after Inventory(hosts, groups) gave r.
Constructed(r, hostsArg, groupsArg) ==
    /\ scopes' = r.heap
    /\ inv' = IF IsOk(r) THEN [hosts |-> r.hosts, groups |-> r.groups]
              ELSE Failed
    /\ result' = [op |-> "Inventory", st |-> r.st,
                  hostsArg |-> hostsArg, groupsArg |-> groupsArg,
                  before |-> scopes,
                  hosts |-> r.hosts, made |-> r.made, linked |-> r.linked]

\* inv = Inventory(hosts, groups)
NewInventory(hostsArg, groupsArg) ==
    /\ inv = NoInventory
    /\ Constructed(Inventory(scopes, hostsArg, groupsArg), hostsArg, groupsArg)
    /\ UNCHANGED <<held, nset>>
    /\ ConnUnchanged

\* The caller's state after inv.filter(**kwargs) gave r.
Narrowed(r, kwargs) ==
    /\ scopes' = r.heap
    /\ inv' = IF IsOk(r) THEN [hosts |-> r.hosts, groups |-> r.groups]
              ELSE inv
    /\ result' = [op |-> "filter", st |-> r.st, kwargs |-> kwargs,
                  before |-> inv]

\* inv = inv.filter(**kwargs)
Filter(kwargs) ==
    /\ HasInventory
    /\ Narrowed(filter(scopes, inv, kwargs), kwargs)
    /\ UNCHANGED <<held, nset>>
    /\ ConnUnchanged

\* scope[item] = value
SetItem(o, item, value) ==
    /\ o \in Reachable
    /\ nset < MaxSetItems
    /\ scopes' = setitem(scopes, o, item, value)
    /\ nset' = nset + 1
    /\ result' = [op |-> "setitem", st |-> "ok", o |-> o, item |-> item]
    /\ UNCHANGED <<inv, held>>
    /\ ConnUnchanged

Query(r) ==
    /\ r.o \in Reachable
    /\ result' = r
    /\ UNCHANGED <<scopes, inv, held, nset>>
    /\ ConnUnchanged

\* scope[item]
GetItem(o, item) ==
    Query([op |-> "getitem", o |-> o, item |-> item,
           r |-> getitem(scopes, o, item, 1)])

\* scope.get(item, default)
Get(o, item, default) ==
    Query([op |-> "get", o |-> o, item |-> item, default |-> default,
           r |-> get(scopes, o, item, default, 1)])

\* scope.keys()
KeysOf(o) == Query([op |-> "keys", o |-> o, r |-> keys(scopes, o, 1)])

\* scope.values()
ValuesOf(o) == Query([op |-> "values", o |-> o, r |-> values(scopes, o, 1)])

\* scope.items()
ItemsOf(o) == Query([op |-> "items", o |-> o, r |-> items(scopes, o, 1)])

\* len(scope)
LenOf(o) == Query([op |-> "len", o |-> o, r |-> len(scopes, o, 1)])

Objects == 1..Len(scopes)

Init ==
    /\ scopes = <<>>
    /\ inv = NoInventory
    /\ result = NoResult
    /\ held = {}
    /\ nset = 0
    /\ registry = {}
    /\ threads = <<>>
    /\ invoked = <<>>
    /\ nhandles = 0

\* Inventories built from raw field mappings, then queried and filtered.
Next ==
    \/ \E h \in Mappings(HostNames, RawHosts),
          g \in Mappings(GroupNames, RawGroups) :
          NewInventory(h, g)
    \/ \E kw \in FilterArgs : Filter(kw)
    \/ \E o \in Objects, k \in Keys : GetItem(o, k)
    \/ \E o \in Objects, k \in Keys, d \in Defaults : Get(o, k, d)
    \/ \E o \in Objects : KeysOf(o)
    \/ \E o \in Objects : ValuesOf(o)
    \/ \E o \in Objects : ItemsOf(o)
    \/ \E o \in Objects : LenOf(o)

Spec == Init /\ [][Next]_vars

----------------------------------------------------------------------------
(* What the claims speak of, stated on the heap without the code's          *)
(* recursion: the parent chain of a scope and the first scope of it that    *)
(* defines a key.                                                           *)

RECURSIVE Walk(_, _, _)
\* How the parent chain of o ends: "root" at a scope without parent,
\* "name" at a parent still held as a str, "cycle" when it comes back to a
\* scope already visited.
Walk(s, o, seen) ==
    IF o \in seen THEN "cycle"
    ELSE IF IsNone(s[o].group) THEN "root"
    ELSE IF IsStr(s[o].group) THEN "name"
    ELSE Walk(s, s[o].group.ref, seen \cup {o})

Acyclic(s, o) == Walk(s, o, {}) = "root"
Cyclic(s, o) == Walk(s, o, {}) = "cycle"

RECURSIVE Chain(_, _)
\* [H, G1, G2, ...] for a scope whose chain is Acyclic.
Chain(s, o) ==
    IF IsRef(s[o].group) THEN <<o>> \o Chain(s, s[o].group.ref) ELSE <<o>>

Defining(s, c, k) == {i \in 1..Len(c) : DictHas(s[c[i]].data, k)}
Nearest(s, c, k) ==
    c[CHOOSE i \in Defining(s, c, k) : \A j \in Defining(s, c, k) : i <= j]

RECURSIVE ChainKeys(_, _, _)
ChainKeys(s, c, i) ==
    IF i > Len(c) THEN <<>>
    ELSE DictKeys(s[c[i]].data) \o ChainKeys(s, c, i + 1)

RECURSIVE ChainSize(_, _, _)
ChainSize(s, c, i) ==
    IF i > Len(c) THEN 0 ELSE Len(s[c[i]].data) + ChainSize(s, c, i + 1)

SeqSet(q) == {q[i] : i \in 1..Len(q)}
Count(q, x) == Cardinality({i \in 1..Len(q) : q[i] = x})

----------------------------------------------------------------------------
\* C1: on a scope whose resolved parent chain is finite and acyclic, H[k]
\* and H.get(k, d) return the value stored by the first scope of the chain
\* [H, G1, G2, ...] that defines k; when none defines it, H[k] raises
\* KeyError and H.get(k, d) returns d.
C1_ProximityFirst ==
    (result.op \in {"getitem", "get"} /\ Acyclic(scopes, result.o)) =>
        LET c == Chain(scopes, result.o)
        IN  IF Defining(scopes, c, result.item) # {}
            THEN result.r =
                 Ok(DictGet(scopes[Nearest(scopes, c, result.item)].data,
                            result.item))
            ELSE IF result.op = "get" THEN result.r = Ok(result.default)
            ELSE result.r = Raise("KeyError")

\* C1 witness: a host under two groups that both define the key with
\* different values, the host itself not: get returned the nearer one.
C1_Witness ==
    /\ result.op = "get"
    /\ Acyclic(scopes, result.o)
    /\ LET c == Chain(scopes, result.o)
       IN  /\ Len(c) = 3
           /\ Defining(scopes, c, result.item) = {2, 3}
           /\ DictGet(scopes[c[2]].data, result.item)
                # DictGet(scopes[c[3]].data, result.item)
           /\ result.r = Ok(DictGet(scopes[c[2]].data, result.item))

\* C8: on a scope with a finite acyclic resolved chain, keys() is the
\* concatenation of the chain scopes' own keys in chain order and len() the
\* sum of their data sizes (a key defined m times is listed m times);
\* items() has no duplicate key, the same key set as keys(), maps each key
\* to what H[k] resolves to, and is no longer than keys().
C8_Enumeration ==
    (result.op \in {"keys", "len", "items"} /\ Acyclic(scopes, result.o)) =>
        LET o == result.o
            c == Chain(scopes, o)
            ks == ChainKeys(scopes, c, 1)
        IN  /\ result.op = "keys" =>
                /\ result.r = Ok(ks)
                /\ \A k \in SeqSet(ks) :
                      Count(ks, k) = Cardinality(Defining(scopes, c, k))
            /\ result.op = "len" =>
                /\ result.r = Ok(ChainSize(scopes, c, 1))
                /\ result.r = Ok(Len(keys(scopes, o, 1).val))
            /\ result.op = "items" =>
                /\ IsOk(result.r)
                /\ \A k \in DictKeySet(result.r.val) :
                      /\ Count(DictKeys(result.r.val), k) = 1
                      /\ Ok(DictGet(result.r.val, k)) = getitem(scopes, o, k, 1)
                /\ DictKeySet(result.r.val) = SeqSet(ks)
                /\ Len(result.r.val) <= Len(ks)

\* C8 witness: items() of a host whose group defines a key the host
\* defines too: keys() lists it twice, items() once.
C8_Witness ==
    /\ result.op = "items"
    /\ Acyclic(scopes, result.o)
    /\ IsOk(result.r)
    /\ Len(Chain(scopes, result.o)) >= 2
    /\ Cardinality(Defining(scopes, Chain(scopes, result.o), "site")) >= 2
    /\ Len(result.r.val) < Len(keys(scopes, result.o, 1).val)

\* The hosts of an Inventory, as a set of <<name, reference>> entries.
HostSet(i) == SeqSet(i.hosts)

\* What the claim calls a matching host: h.get(k) equals v for every pair.
MatchesAll(s, o, kwargs) ==
    \A j \in 1..Len(kwargs) :
        get(s, o, kwargs[j][1], None, 1) = Ok(kwargs[j][2])

IsPrefix(a, b) == Len(a) <= Len(b) /\ \A j \in 1..Len(a) : a[j] = b[j]

\* C6: without filter_func, the hosts of inv.filter(**kw) are exactly the
\* hosts h of inv with h.get(k) == v for every pair of kw; filtering the
\* result again with kw keeps the same hosts, and a kw with more pairs
\* keeps a subset.
C6_FilterExact ==
    (result.op = "filter" /\ result.st = "ok") =>
        /\ HostSet(inv) =
             {e \in HostSet(result.before) :
                 MatchesAll(scopes, e[2].ref, result.kwargs)}
        /\ inv.groups = result.before.groups
        /\ LET again == filter(scopes, inv, result.kwargs)
           IN  IsOk(again) /\ again.hosts = inv.hosts
        /\ \A kw \in FilterArgs :
              IsPrefix(result.kwargs, kw) =>
                  LET more == filter(scopes, result.before, kw)
                  IN  IsOk(more) => SeqSet(more.hosts) \subseteq HostSet(inv)

\* C6 witness: a filter on two pairs kept one of two hosts, the one kept
\* matching a pair through its group.
C6_Witness ==
    /\ result.op = "filter"
    /\ result.st = "ok"
    /\ Len(result.kwargs) = 2
    /\ Len(result.before.hosts) = 2
    /\ Len(inv.hosts) = 1
    /\ ~DictHas(scopes[inv.hosts[1][2].ref].data, "site")

\* A parent name that is no key of the groups mapping.
Dangling(entry, s, groupsArg) ==
    LET p == IF IsRef(entry) THEN s[entry.ref].group ELSE entry.group
    IN  IsStr(p) /\ ~DictHas(groupsArg, p.str)
DanglingIn(arg, s, groupsArg) ==
    \E j \in 1..Len(arg) : Dangling(arg[j][2], s, groupsArg)

\* C7 as claimed: whenever a parent reference of a group or of a host
\* names a group absent from the groups mapping, construction fails with
\* KeyError, no Inventory is produced, and at the failure no host has been
\* materialized, linked to its group or stored.
C7_FailsBeforeHosts ==
    (/\ result.op = "Inventory"
     /\ \/ DanglingIn(result.groupsArg, result.before, result.groupsArg)
        \/ DanglingIn(result.hostsArg, result.before, result.groupsArg)) =>
        /\ result.st = "KeyError"
        /\ inv = Failed
        /\ result.made = 0 /\ result.linked = 0 /\ result.hosts = <<>>

\* C7 amended: a dangling parent reference, on a group or on a host, makes
\* construction fail with KeyError and produce no Inventory, and
\* construction fails in no other case; when the dangling reference is on
\* a group, no host has been materialized, linked or stored at the failure.
C7_FailsBeforeHostsForGroups ==
    result.op = "Inventory" =>
        LET gd == DanglingIn(result.groupsArg, result.before, result.groupsArg)
            hd == DanglingIn(result.hostsArg, result.before, result.groupsArg)
        IN  /\ (gd \/ hd) <=> result.st # "ok"
            /\ (gd \/ hd) => (result.st = "KeyError" /\ inv = Failed)
            /\ gd => /\ result.made = 0
                     /\ result.linked = 0
                     /\ result.hosts = <<>>
                     /\ Len(scopes) = Len(result.before) + Len(result.groupsArg)

\* C7 witness: a group names an absent group while both hosts are given
\* and could be resolved: the failure came with no host touched.
C7_Witness ==
    /\ result.op = "Inventory"
    /\ result.st = "KeyError"
    /\ DanglingIn(result.groupsArg, result.before, result.groupsArg)
    /\ ~DanglingIn(result.hostsArg, result.before, result.groupsArg)
    /\ Len(result.hostsArg) = 2
    /\ result.made = 0

\* C10: Inventory construction accepts groups whose parent names form a
\* cycle; on a scope whose chain reaches the cycle keys(), values(),
\* items(), len() and the lookup of a key its own data lacks end in
\* unbounded recursion, never in a value or a KeyError; on a finite acyclic
\* chain of n scopes each of these ends normally within 2n nested calls.
C10_Cycles ==
    /\ (result.op = "Inventory"
        /\ ~DanglingIn(result.groupsArg, result.before, result.groupsArg)
        /\ ~DanglingIn(result.hostsArg, result.before, result.groupsArg))
       => result.st = "ok"
    /\ (result.op \in {"keys", "values", "items", "len"}
        /\ Cyclic(scopes, result.o))
       => result.r = RecursionError
    /\ (result.op \in {"getitem", "get"} /\ Cyclic(scopes, result.o)
        /\ ~DictHas(scopes[result.o].data, result.item))
       => result.r = RecursionError
    /\ (result.op \in {"keys", "values", "items", "len", "getitem", "get"}
        /\ Acyclic(scopes, result.o))
       => /\ result.r.st \in {"ok", "KeyError"}
          /\ LET o == result.o
                 d == RecursionLimit - 2 * Len(Chain(scopes, o)) + 1
             IN  /\ keys(scopes, o, d).st = "ok"
                 /\ values(scopes, o, d).st = "ok"
                 /\ items(scopes, o, d).st = "ok"
                 /\ len(scopes, o, d).st = "ok"
                 /\ \A k \in Keys :
                       /\ getitem(scopes, o, k, d).st \in {"ok", "KeyError"}
                       /\ get(scopes, o, k, None, d).st = "ok"

\* C10 witness: two groups name each other, a host under them looked up a
\* key it lacks and its group defines, and the lookup ended in recursion.
C10_Witness ==
    /\ result.op = "getitem"
    /\ Cyclic(scopes, result.o)
    /\ scopes[result.o].cls = "Host"
    /\ ~DictHas(scopes[result.o].data, result.item)
    /\ DictHas(scopes[scopes[result.o].group.ref].data, result.item)
    /\ scopes[scopes[result.o].group.ref].group # scopes[result.o].group
    /\ result.r = RecursionError

----------------------------------------------------------------------------
(* Scopes built by hand, changed with __setitem__, and handed to an        *)
(* Inventory under any key.                                                *)

\* h1 is a host built beforehand, h2 a raw mapping under group g1; g1 is
\* a raw mapping or a group built beforehand, whatever its name.
ScopeHosts(n) ==
    IF n = HostNames[1] THEN HeldOf("Host")
    ELSE {[group |-> Str(GroupNames[1]), kw |-> <<>>]}
ScopeGroups(n) ==
    {[group |-> None, kw |-> <<<<"site", SiteOf(n)>>>>]} \cup HeldOf("Group")
ScopeParents == {None, Str(GroupNames[1])}
ScopeFilters == {<<>>, <<<<"site", SiteOf(GroupNames[1])>>>>}

NextScope ==
    \/ \E g \in ScopeParents \cup HeldOf("Group") :
          NewScope("Host", HostNames[1], g, <<>>)
    \/ \E n \in SeqSet(GroupNames), g \in ScopeParents \cup HeldOf("Group") :
          NewScope("Group", n, g, <<>>)
    \/ \E h \in Mappings(HostNames, ScopeHosts),
          g \in Mappings(<<GroupNames[1]>>, ScopeGroups) :
          NewInventory(h, g)
    \/ \E kw \in ScopeFilters : Filter(kw)
    \/ \E o \in Objects, k \in Keys : SetItem(o, k, Str("cmh"))
    \/ \E o \in Objects, k \in Keys \ {"name"}, d \in Defaults : Get(o, k, d)

SpecScope == Init /\ [][NextScope]_vars

----------------------------------------------------------------------------
\* C2 as claimed: in every state reached through the constructors,
\* Inventory construction and __setitem__, get(key, default) on a scope
\* whose parent chain is finite and acyclic, a parent still held as a name
\* included, returns a value and raises nothing.
C2_GetNeverFails ==
    (result.op = "get" /\ ~Cyclic(scopes, result.o)) => IsOk(result.r)

\* The name of the parent of o as the scope holds it: None without parent.
ParentName(s, o) ==
    IF IsRef(s[o].group) THEN Str(s[s[o].group.ref].name) ELSE s[o].group

Seeded(s) ==
    \A o \in 1..Len(s) :
        /\ DictHas(s[o].data, "name")
        /\ DictGet(s[o].data, "name") = Str(s[o].name)
        /\ DictHas(s[o].data, "group")
        /\ DictGet(s[o].data, "group") = ParentName(s, o)

\* C3 as claimed: whatever constructions, resolutions, filter() and
\* __setitem__ calls were made, every scope S has S.data["name"] == S.name
\* and S.data["group"] equal to the name of its parent, or None without
\* parent.
C3_SeededData == Seeded(scopes)

\* A group built beforehand and stored under a key that is not its name.
Misnamed(s, groupsArg) ==
    \E j \in 1..Len(groupsArg) :
        /\ IsRef(groupsArg[j][2])
        /\ s[groupsArg[j][2].ref].name # groupsArg[j][1]

\* The calls the amended C3 leaves out, read from what the call recorded.
Unseeding(r, s) ==
    \/ r.op = "setitem" /\ r.item \in {"name", "group"}
    \/ r.op = "Inventory" /\ Misnamed(s, r.groupsArg)

\* C3 amended: S.data["name"] == S.name and S.data["group"] == the name of
\* S's parent (None without parent) is kept by every Scope construction,
\* Inventory construction, parent-name resolution, filter() and
\* __setitem__ call, except a __setitem__ on the key "name" or "group" and
\* an Inventory construction given a pre-built Group under a key other
\* than the Group's name.
C3_SeededDataKept ==
    [][(Seeded(scopes) /\ ~Unseeding(result', scopes)) => Seeded(scopes')]_vars

\* C3 witness: a host and a group built by hand, the host naming the group,
\* were given to an Inventory that replaced the name by the group, a site
\* was set, and the seeded entries are intact.
C3_Witness ==
    /\ HasInventory
    /\ nset = 1
    /\ Seeded(scopes)
    /\ \E h \in held, g \in held :
          /\ scopes[h].cls = "Host"
          /\ scopes[h].group = Ref(g)
          /\ DictGet(scopes[h].data, "group") = Str(scopes[g].name)
          /\ \E j \in 1..Len(inv.groups) : inv.groups[j] = <<scopes[g].name, Ref(g)>>
          /\ DictHas(scopes[g].data, "site")

----------------------------------------------------------------------------
(* Connections.  The scopes are those of an Inventory of two hosts under   *)
(* one group; the connection tasks module defines a task for ssh and for   *)
(* napalm and none for doesnotexist.                                       *)

ConnTypes == {"ssh", "napalm", "doesnotexist"}
ConnRegistry == {"ssh_connection", "napalm_connection"}
ConnInventory ==
    Inventory(<<>>,
              <<<<"h1", [group |-> Str("g1"), kw |-> <<>>]>>,
                <<"h2", [group |-> Str("g1"), kw |-> <<>>]>>>>,
              <<<<"g1", [group |-> None, kw |-> <<>>]>>>>)

Idle == [pc |-> "idle", o |-> 0, c |-> "", mine |-> 0,
         ret |-> [st |-> "none"], ncalls |-> 0, asked |-> {}]

InitThreads(T) ==
    /\ scopes = ConnInventory.heap
    /\ inv = [hosts |-> ConnInventory.hosts, groups |-> ConnInventory.groups]
    /\ result = NoResult
    /\ held = {}
    /\ nset = 0
    /\ registry = ConnRegistry
    /\ threads = [t \in T |-> Idle]
    /\ invoked = [p \in (1..Len(ConnInventory.heap)) \X ConnTypes |-> 0]
    /\ nhandles = 0

ScopeUnchanged == UNCHANGED <<inv, result, held, nset, registry>>

\* The caller's state after scope.get_connection(c) gave g.
Connected(t, o, c, g) ==
    /\ scopes' = g.heap
    /\ invoked' = [invoked EXCEPT ![<<o, c>>] = @ + g.ran]
    /\ nhandles' = nhandles + g.ran
    /\ threads' = [threads EXCEPT ![t] =
                     [@ EXCEPT !.o = o, !.c = c, !.ret = g.r,
                               !.mine = IF g.ran = 1 THEN nhandles + 1 ELSE 0,
                               !.ncalls = @ + 1,
                               !.asked = @ \cup {<<o, c>>}]]

\* scope.get_connection(c), by a single caller.
GetConnection(t, o, c) ==
    /\ threads[t].ncalls < MaxCalls
    /\ Connected(t, o, c,
                 get_connection(scopes, registry, o, c, Handle(nhandles + 1)))
    /\ ScopeUnchanged

InitConn == InitThreads({1})

NextConn == \E o \in Objects, c \in ConnTypes : GetConnection(1, o, c)

SpecConn == InitConn /\ [][NextConn]_vars

Pairs == Objects \X ConnTypes
CachedPairs == {p \in Pairs : DictHas(scopes[p[1]].connections, p[2])}
HandleOf(s, p) == DictGet(s[p[1]].connections, p[2])

\* After any number of calls by one caller: each pair was established at
\* most once, exactly the requested pairs with a task were established,
\* no handle serves two pairs, and the last call returned its own scope's
\* entry.
C4_Counts ==
    /\ \A p \in Pairs :
          /\ invoked[p] <= 1
          /\ invoked[p] = 1 <=> (p \in threads[1].asked /\ Known(registry, p[2]))
          /\ invoked[p] = 1 <=> p \in CachedPairs
    /\ \A p \in CachedPairs, q \in CachedPairs :
          p # q => HandleOf(scopes, p) # HandleOf(scopes, q)
    /\ IsOk(threads[1].ret) =>
          /\ <<threads[1].o, threads[1].c>> \in CachedPairs
          /\ threads[1].ret.val = HandleOf(scopes, <<threads[1].o, threads[1].c>>)

\* A call on a cached pair returns the cached handle and runs no task, and
\* no call changes an entry that exists.
C4_Cached ==
    /\ \A p \in CachedPairs :
          /\ p \in {q \in Pairs : DictHas(scopes'[q[1]].connections, q[2])}
          /\ HandleOf(scopes', p) = HandleOf(scopes, p)
    /\ <<threads'[1].o, threads'[1].c>> \in CachedPairs =>
          /\ threads'[1].ret = Ok(HandleOf(scopes, <<threads'[1].o, threads'[1].c>>))
          /\ invoked' = invoked
          /\ scopes' = scopes

\* C4: in a sequential run of get_connection calls, with tasks that store
\* a handle in host.connections[type], the task runs exactly once per
\* requested (scope, type) pair, on the first call; every later call for
\* the pair returns the same cached handle without running the task; and
\* an entry of one scope never serves a request on another scope.
C4_AtMostOnce == []C4_Counts /\ [][C4_Cached]_vars

\* C4 witness: three calls, two of them for ssh on one host and one for
\* ssh on the other host of the same group: two tasks ran, one per host.
C4_Witness ==
    /\ DOMAIN threads = {1}
    /\ threads[1].ncalls = 3
    /\ threads[1].asked = {<<2, "ssh">>, <<3, "ssh">>}
    /\ invoked[<<2, "ssh">>] = 1 /\ invoked[<<3, "ssh">>] = 1
    /\ nhandles = 2
    /\ scopes[2].group = scopes[3].group

\* C5: get_connection(t) on a scope without cache entry for t, when no task
\* named "<t>_connection" exists, fails with AttributeError, runs no task
\* and leaves the connections and the data of every scope as they were.
C5_UnknownType ==
    [][(/\ threads'[1].ncalls = threads[1].ncalls + 1
        /\ ~Cached(scopes, threads'[1].o, threads'[1].c)
        /\ TaskName(threads'[1].c) \notin registry)
       => /\ threads'[1].ret = Raise("AttributeError")
          /\ scopes' = scopes
          /\ invoked' = invoked
          /\ nhandles' = nhandles]_vars

\* C5 witness: a host that holds an ssh connection was asked for a
\* doesnotexist connection and the call raised AttributeError.
C5_Witness ==
    /\ DOMAIN threads = {1}
    /\ threads[1].ret = Raise("AttributeError")
    /\ threads[1].c = "doesnotexist"
    /\ DictHas(scopes[threads[1].o].connections, "ssh")
    /\ ~DictHas(scopes[threads[1].o].connections, "doesnotexist")

----------------------------------------------------------------------------
(* get_connection called by two threads that nothing serializes.  A call   *)
(* takes three steps: the membership test with the task lookup, the task,  *)
(* and the return statement; the interpreter may switch threads between    *)
(* them.                                                                   *)

Enter(t, o, c, pc) ==
    threads' = [threads EXCEPT ![t] =
                  [@ EXCEPT !.pc = pc, !.o = o, !.c = c, !.mine = 0]]

\* A get_connection that holds a lock from the test to the store: the
\* task runs in the step that found the cache empty.
CheckLocked(t, o, c) ==
    /\ threads[t].pc = "idle"
    /\ threads[t].ncalls < MaxRaceCalls
    /\ Known(registry, c)
    /\ IF Cached(scopes, o, c)
       THEN /\ Enter(t, o, c, "return")
            /\ UNCHANGED <<scopes, invoked, nhandles>>
       ELSE /\ scopes' = connection_task(scopes, o, c, Handle(nhandles + 1))
            /\ invoked' = [invoked EXCEPT ![<<o, c>>] = @ + 1]
            /\ nhandles' = nhandles + 1
            /\ threads' = [threads EXCEPT ![t] =
                             [@ EXCEPT !.pc = "return", !.o = o, !.c = c,
                                       !.mine = nhandles + 1]]
    /\ ScopeUnchanged

\* Host.get_connection, from the call to the task lookup: the membership
\* test, and when it fails the lookup of the task.
Check(t, o, c) ==
    /\ threads[t].pc = "idle"
    /\ threads[t].ncalls < MaxRaceCalls
    /\ IF Cached(scopes, o, c) THEN Enter(t, o, c, "return")
       ELSE IF Known(registry, c) THEN Enter(t, o, c, "task")
       ELSE threads' = [threads EXCEPT ![t] =
                          [@ EXCEPT !.o = o, !.c = c, !.mine = 0,
                                    !.ret = Raise("AttributeError"),
                                    !.ncalls = @ + 1]]
    /\ UNCHANGED <<scopes, invoked, nhandles>>
    /\ ScopeUnchanged

\* Host.get_connection: task(**kwargs)
RunTask(t) ==
    /\ threads[t].pc = "task"
    /\ scopes' = connection_task(scopes, threads[t].o, threads[t].c,
                                 Handle(nhandles + 1))
    /\ invoked' = [invoked EXCEPT ![<<threads[t].o, threads[t].c>>] = @ + 1]
    /\ nhandles' = nhandles + 1
    /\ threads' = [threads EXCEPT ![t] =
                     [@ EXCEPT !.pc = "return", !.mine = nhandles + 1]]
    /\ ScopeUnchanged

\* Host.get_connection: return self.connections[connection]
Return(t) ==
    /\ threads[t].pc = "return"
    /\ threads' = [threads EXCEPT ![t] =
                     [@ EXCEPT !.pc = "idle", !.ncalls = @ + 1,
                               !.ret = Established(scopes, threads[t].o,
                                                   threads[t].c)]]
    /\ UNCHANGED <<scopes, invoked, nhandles>>
    /\ ScopeUnchanged

InitRace == InitThreads({1, 2})

\* The two threads ask the hosts of the Inventory for a connection type
\* that has a task and for one that has none.
RaceHosts == {inv.hosts[i][2].ref : i \in 1..Len(inv.hosts)}
RaceTypes == {"ssh", "doesnotexist"}

NextRace ==
    \/ \E t \in DOMAIN threads, o \in RaceHosts, c \in RaceTypes :
          Check(t, o, c)
    \/ \E t \in DOMAIN threads : RunTask(t)
    \/ \E t \in DOMAIN threads : Return(t)

SpecRace == InitRace /\ [][NextRace]_vars

Max(a, b) == IF a >= b THEN a ELSE b
Target(t) == <<threads[t].o, threads[t].c>>

\* Two calls for one pair that both ran the task: the task ran twice, the
\* cache holds the handle stored last, and a call that has returned
\* returned one of the two handles.
C9_Overwritten ==
    \A t \in DOMAIN threads, u \in DOMAIN threads :
        (t # u /\ Target(t) = Target(u)
         /\ threads[t].mine # 0 /\ threads[u].mine # 0) =>
            /\ invoked[Target(t)] >= 2
            /\ HandleOf(scopes, Target(t))
                 = Handle(Max(threads[t].mine, threads[u].mine))
            /\ threads[t].pc = "idle" =>
                  threads[t].ret.val \in {Handle(threads[t].mine),
                                          Handle(threads[u].mine)}

\* The step in which a call finds no cache entry stores none, and a call
\* goes straight to its return statement only on an entry that exists.
C9_TestStoresNothing ==
    \A t \in DOMAIN threads :
        /\ (threads[t].pc = "idle" /\ threads'[t].pc = "task") =>
              /\ scopes' = scopes
              /\ invoked' = invoked
              /\ ~Cached(scopes', threads'[t].o, threads'[t].c)
        /\ (threads[t].pc = "idle" /\ threads'[t].pc = "return") =>
              /\ scopes' = scopes
              /\ Cached(scopes, threads'[t].o, threads'[t].c)

\* C9: the membership test and the store of get_connection are separate
\* steps: the test leaves the cache as it found it, so a second thread
\* passes it too; when two threads both ran the task for one pair the task
\* ran twice and the later store replaced the earlier handle.
C9_CheckThenPopulate == []C9_Overwritten /\ [][C9_TestStoresNothing]_vars

\* C9 witness: two threads asked one host for ssh, both found no entry,
\* the task ran twice, the first thread returned its handle before the
\* second stored its own, and the two callers hold different handles.
C9_Witness ==
    /\ DOMAIN threads = {1, 2}
    /\ Target(1) = Target(2)
    /\ threads[1].pc = "idle" /\ threads[2].pc = "idle"
    /\ threads[1].ncalls = 1 /\ threads[2].ncalls = 1
    /\ invoked[Target(1)] = 2
    /\ IsOk(threads[1].ret) /\ IsOk(threads[2].ret)
    /\ threads[1].ret # threads[2].ret
    /\ HandleOf(scopes, Target(1)) = threads[2].ret.val
    /\ HandleOf(scopes, Target(1)) # threads[1].ret.val

====
